---- MODULE Spec2Model ----
(***************************************************************************)
(* A model of the DeckenmalereiWiki parser (src/parser.py) and of the      *)
(* article selection of the importer (src/importer.py).                    *)
(*                                                                         *)
(* Python dicts are modelled as follows.  A JSON record is a TLA+ record   *)
(* whose DOMAIN holds exactly the keys that are present, so r.get(k, d)    *)
(* is Get(r, k, d).  self.entities and self.resources (dicts that keep     *)
(* insertion order) are sequences of records with pairwise distinct IDs.   *)
(* self.relations_by_source (a defaultdict(list)) is a function whose      *)
(* DOMAIN is the set of keys that were ever indexed.                       *)
(*                                                                         *)
(* Text is a sequence of tokens.  A token is a string: one character       *)
(* ("x", " ", "\n", "="), one whole tag ("<p>", "</p>", "<h2>", ...) or    *)
(* one whole bracketed marker ("[1]").  The regular expressions of the     *)
(* source are modelled by what they match on such sequences.               *)
(***************************************************************************)
EXTENDS Integers, Sequences, FiniteSets, TLC

VARIABLES
    entities_file,        \* sources/entities.json, a list of records
    relations_file,       \* sources/relations.json
    resources_file,       \* sources/resources.json
    entities,             \* self.entities
    relations,            \* self.relations
    relations_by_source,  \* self.relations_by_source
    resources,            \* self.resources
    pc,                   \* where the run is
    raised,               \* the exception that ended the run, "" when none
    root,                 \* the entity ID the last read was called with
    parts,                \* what get_text_parts returned
    lead_resource,        \* what get_lead_resource returned
    max_articles,         \* the limit: <<>> for None, <<n>> for the integer n
    import_entities,      \* import_from_parser's text_entities
    images_for,           \* the IDs of the entities whose images were processed
    text_entities,        \* generate_all_articles' text_entities
    entity_idx,           \* the position of its for loop
    articles,             \* its articles dict
    text_parts,           \* generate_article's text_parts
    part_idx,             \* the position of the running pass
    all_citations,        \* generate_article's all_citations
    part_texts,           \* generate_article's part_texts
    used_refs,            \* generate_article's used_refs (the keys that are set)
    article_parts,        \* generate_article's article_parts
    html,                 \* the argument of html_to_mediawiki
    wiki,                 \* what it returned
    text,                 \* the text argument of parse_citations / replace_citation_refs
    cleaned_text,         \* the cleaned text parse_citations returned
    citation_map,         \* the citation map it returned
    used_before,          \* used_refs as it was when replace_citation_refs was called
    resolved              \* the text replace_citation_refs returned

files == <<entities_file, relations_file, resources_file>>

store == <<entities, relations, relations_by_source, resources>>

query == <<root, parts, lead_resource>>

gen == <<max_articles, import_entities, images_for, text_entities, entity_idx, articles>>

doc == <<text_parts, part_idx, all_citations, part_texts, used_refs, article_parts>>

fn == <<html, wiki, text, cleaned_text, citation_map, used_before, resolved>>

vars == <<files, store, pc, raised, query, gen, doc, fn>>

-----------------------------------------------------------------------------
(* Bounds of the model *)

MaxRels == 3

RecursionLimit == 6

-----------------------------------------------------------------------------
(* Python values *)

None == "None"

Get(r, k, d) == IF k \in DOMAIN r THEN r[k] ELSE d

RECURSIVE BoundedSeq(_, _)
BoundedSeq(S, n) ==
    IF n = 0 THEN {<<>>}
    ELSE LET shorter == BoundedSeq(S, n - 1)
         IN shorter \cup {Append(s, x) : s \in {t \in shorter : Len(t) = n - 1}, x \in S}

InDict(d, key) == \E i \in DOMAIN d : d[i].ID = key

DictGet(d, key) == d[CHOOSE i \in DOMAIN d : d[i].ID = key]

DictPut(d, rec) ==
    IF InDict(d, rec.ID)
    THEN [i \in DOMAIN d |-> IF d[i].ID = rec.ID THEN rec ELSE d[i]]
    ELSE Append(d, rec)

RECURSIVE DictFromList(_, _)
DictFromList(list, d) ==
    IF list = <<>> THEN d
    ELSE DictFromList(Tail(list), DictPut(d, Head(list)))

AllHaveID(list) == \A i \in DOMAIN list : "ID" \in DOMAIN list[i]

-----------------------------------------------------------------------------
(* load_data *)

IsOutgoing(rel) == Get(rel, "relDir", None) = "->"

IndexAppend(idx, rel) ==
    IF rel.ID \in DOMAIN idx
    THEN [idx EXCEPT ![rel.ID] = Append(@, rel)]
    ELSE [k \in DOMAIN idx \cup {rel.ID} |-> IF k = rel.ID THEN <<rel>> ELSE idx[k]]

RECURSIVE IndexRelations(_, _)
IndexRelations(rels, idx) ==
    IF rels = <<>> THEN [ok |-> TRUE, index |-> idx]
    ELSE LET rel == Head(rels)
         IN IF ~IsOutgoing(rel) THEN IndexRelations(Tail(rels), idx)
            ELSE IF "ID" \notin DOMAIN rel THEN [ok |-> FALSE, index |-> idx]
            ELSE IndexRelations(Tail(rels), IndexAppend(idx, rel))

load_data ==
    /\ pc = "start"
    /\ IF ~AllHaveID(entities_file)
       THEN /\ pc' = "failed"
            /\ raised' = "KeyError"
            /\ UNCHANGED <<entities, relations, relations_by_source, resources>>
       ELSE /\ entities' = DictFromList(entities_file, <<>>)
            /\ relations' = relations_file
            /\ LET ix == IndexRelations(relations_file, relations_by_source)
               IN /\ relations_by_source' = ix.index
                  /\ IF ~ix.ok
                     THEN /\ pc' = "failed"
                          /\ raised' = "KeyError"
                          /\ UNCHANGED resources
                     ELSE IF ~AllHaveID(resources_file)
                     THEN /\ pc' = "failed"
                          /\ raised' = "KeyError"
                          /\ UNCHANGED resources
                     ELSE /\ resources' = DictFromList(resources_file, <<>>)
                          /\ pc' = "loaded"
                          /\ UNCHANGED raised
    /\ UNCHANGED <<files, query, gen, doc, fn>>

-----------------------------------------------------------------------------
(* The graph store's read operations *)

Self == [entities |-> entities, relations_by_source |-> relations_by_source,
         resources |-> resources]

get_text_entities(self) ==
    SelectSeq(self.entities, LAMBDA e : Get(e, "sType", None) = "TEXT")

get_relations_by_type(self, entity_id, rel_type) ==
    SelectSeq(IF entity_id \in DOMAIN self.relations_by_source
              THEN self.relations_by_source[entity_id] ELSE <<>>,
              LAMBDA r : Get(r, "sType", None) = rel_type)

RelOrdKeyMissingLast(r) == Get(r, "relOrd", 1)

RelOrdKey(r) == Get(r, "relOrd", 0)

\* list.sort(key=...) is stable: an element goes after every element whose key
\* is not greater than its own.
InsertByRelOrd(sorted, r) ==
    LET n == Cardinality({i \in DOMAIN sorted : RelOrdKey(sorted[i]) <= RelOrdKey(r)})
    IN SubSeq(sorted, 1, n) \o <<r>> \o SubSeq(sorted, n + 1, Len(sorted))

RECURSIVE SortByRelOrd(_, _)
SortByRelOrd(rels, sorted) ==
    IF rels = <<>> THEN sorted
    ELSE SortByRelOrd(Tail(rels), InsertByRelOrd(sorted, Head(rels)))

RECURSIVE collect_parts_recursive(_, _, _)
RECURSIVE CollectLoop(_, _, _, _, _)

\* A variant of the loop that stops at the first unresolvable target.
RECURSIVE CollectLoopBreak(_, _, _, _, _)
CollectLoopBreak(self, rels, i, acc, depth) ==
    IF i > Len(rels) THEN [err |-> FALSE, parts |-> acc]
    ELSE LET target_id == Get(rels[i], "relTar", None)
         IN IF ~InDict(self.entities, target_id)
            THEN [err |-> FALSE, parts |-> acc]
            ELSE LET sub == collect_parts_recursive(self, target_id, depth + 1)
                 IN IF sub.err THEN sub
                    ELSE CollectLoopBreak(self, rels, i + 1,
                             Append(acc, DictGet(self.entities, target_id)) \o sub.parts,
                             depth)

\* The for loop of collect_parts_recursive; err when a nested call hit the
\* interpreter's recursion limit.
CollectLoop(self, rels, i, acc, depth) ==
    IF i > Len(rels) THEN [err |-> FALSE, parts |-> acc]
    ELSE LET target_id == Get(rels[i], "relTar", None)
         IN IF ~InDict(self.entities, target_id)
            THEN CollectLoop(self, rels, i + 1, acc, depth)
            ELSE LET sub == collect_parts_recursive(self, target_id, depth + 1)
                 IN IF sub.err THEN sub
                    ELSE CollectLoop(self, rels, i + 1,
                             Append(acc, DictGet(self.entities, target_id)) \o sub.parts,
                             depth)

\* A traversal that stops descending at the depth limit and reports nothing
collect_parts_recursive_cut(self, entity_id, depth) ==
    IF depth > RecursionLimit THEN [err |-> FALSE, parts |-> <<>>]
    ELSE CollectLoop(self,
                     SortByRelOrd(get_relations_by_type(self, entity_id, "PART"), <<>>),
                     1, <<>>, depth)

\* One call: a frame beyond the interpreter's recursion limit raises
\* RecursionError, which no caller catches.
collect_parts_recursive(self, entity_id, depth) ==
    IF depth > RecursionLimit THEN [err |-> TRUE, parts |-> <<>>]
    ELSE CollectLoop(self,
                     SortByRelOrd(get_relations_by_type(self, entity_id, "PART"), <<>>),
                     1, <<>>, depth)

get_text_parts(self, text_entity_id) ==
    collect_parts_recursive(self, text_entity_id, 1)

-----------------------------------------------------------------------------
(* Strings as token sequences *)

IsSpace(t) == t \in {" ", "\n"}

\* str.lstrip(), str.rstrip(), str.strip()
RECURSIVE LStrip(_)
LStrip(s) == IF s # <<>> /\ IsSpace(Head(s)) THEN LStrip(Tail(s)) ELSE s

RECURSIVE RStrip(_)
RStrip(s) ==
    IF s # <<>> /\ IsSpace(s[Len(s)]) THEN RStrip(SubSeq(s, 1, Len(s) - 1)) ELSE s

Strip(s) == LStrip(RStrip(s))

\* The first position >= i of s that holds a token of the set T, 0 when none
FirstIn(s, i, T) ==
    IF \E j \in i..Len(s) : s[j] \in T
    THEN CHOOSE j \in i..Len(s) : s[j] \in T /\ \A k \in i..(j - 1) : s[k] \notin T
    ELSE 0

\* The first position >= i of s that holds no whitespace, Len(s) + 1 when none
SkipSpace(s, i) ==
    IF \E j \in i..Len(s) : ~IsSpace(s[j])
    THEN CHOOSE j \in i..Len(s) : ~IsSpace(s[j]) /\ \A k \in i..(j - 1) : IsSpace(s[k])
    ELSE Len(s) + 1

\* "sep".join(list)
RECURSIVE Join(_, _)
Join(list, sep) ==
    IF list = <<>> THEN <<>>
    ELSE IF Len(list) = 1 THEN list[1]
    ELSE list[1] \o sep \o Join(Tail(list), sep)

-----------------------------------------------------------------------------
(* html_to_mediawiki *)

\* re.sub(r"<t>(.*?)</t>", pre \1 post, text, flags=re.DOTALL): from the left, an
\* opening tag pairs with the nearest closing tag after it.
RECURSIVE SubTagFrom(_, _, _, _, _, _)
SubTagFrom(s, i, open, close, pre, post) ==
    IF i > Len(s) THEN <<>>
    ELSE LET j == FirstIn(s, i + 1, {close})
         IN IF s[i] = open /\ j # 0
            THEN pre \o SubSeq(s, i + 1, j - 1) \o post
                     \o SubTagFrom(s, j + 1, open, close, pre, post)
            ELSE <<s[i]>> \o SubTagFrom(s, i + 1, open, close, pre, post)

SubTag(s, open, close, pre, post) == SubTagFrom(s, 1, open, close, pre, post)

\* re.findall(r"<li>(.*?)</li>", list_content, flags=re.DOTALL)
RECURSIVE FindItems(_, _)
FindItems(content, i) ==
    IF i > Len(content) THEN <<>>
    ELSE LET j == FirstIn(content, i + 1, {"</li>"})
         IN IF content[i] = "<li>" /\ j # 0
            THEN <<SubSeq(content, i + 1, j - 1)>> \o FindItems(content, j + 1)
            ELSE FindItems(content, i + 1)

RECURSIVE ItemLines(_, _)
ItemLines(items, marker) ==
    IF items = <<>> THEN <<>>
    ELSE <<(<<marker, " ">> \o Strip(Head(items)))>> \o ItemLines(Tail(items), marker)

convert_list(list_content, marker) ==
    Join(ItemLines(FindItems(list_content, 1), marker), <<"\n">>) \o <<"\n", "\n">>

\* re.sub(r"<ul>(.*?)</ul>", lambda m: self._convert_list(m.group(1), marker), ...)
RECURSIVE SubListFrom(_, _, _, _, _)
SubListFrom(s, i, open, close, marker) ==
    IF i > Len(s) THEN <<>>
    ELSE LET j == FirstIn(s, i + 1, {close})
         IN IF s[i] = open /\ j # 0
            THEN convert_list(SubSeq(s, i + 1, j - 1), marker)
                     \o SubListFrom(s, j + 1, open, close, marker)
            ELSE <<s[i]>> \o SubListFrom(s, i + 1, open, close, marker)

\* re.sub(r"<br\s*/?>", "\n", text)
BrTags == {"<br>", "<br/>", "<br />"}

SubBr(s) == [i \in DOMAIN s |-> IF s[i] \in BrTags THEN "\n" ELSE s[i]]

\* The length of the run of newlines that starts at position i
RECURSIVE NewlineRun(_, _)
NewlineRun(s, i) ==
    IF i <= Len(s) /\ s[i] = "\n" THEN 1 + NewlineRun(s, i + 1) ELSE 0

\* The 3 of \n{3,}
CollapseFrom == 3

\* A collapse of every run of two or more newlines to a single one
RECURSIVE CollapseNewlinesPair(_, _)
CollapseNewlinesPair(s, i) ==
    IF i > Len(s) THEN <<>>
    ELSE LET n == NewlineRun(s, i)
         IN IF n >= 2
            THEN <<"\n">> \o CollapseNewlinesPair(s, i + n)
            ELSE <<s[i]>> \o CollapseNewlinesPair(s, i + 1)

\* re.sub(r"\n{3,}", "\n\n", text)
RECURSIVE CollapseNewlines(_, _)
CollapseNewlines(s, i) ==
    IF i > Len(s) THEN <<>>
    ELSE LET n == NewlineRun(s, i)
         IN IF n >= CollapseFrom
            THEN <<"\n", "\n">> \o CollapseNewlines(s, i + n)
            ELSE IF n > 0
            THEN SubSeq(s, i, i + n - 1) \o CollapseNewlines(s, i + n)
            ELSE <<s[i]>> \o CollapseNewlines(s, i + 1)

\* The one href the model's anchors carry, and the anchor's opening tag
AnchorUrl == "u"

AnchorOpen == "<a href=\"u\">"

\* A heading replacement that ends in a blank line
HeadingPostBlank(level) == <<" ">> \o [k \in 1..level |-> "="] \o <<"\n", "\n">>

\* r"== \1 ==\n" and its like: the markers before and after the heading's text
HeadingPre(level) == [k \in 1..level |-> "="] \o <<" ">>

HeadingPost(level) == <<" ">> \o [k \in 1..level |-> "="] \o <<"\n">>

html_to_mediawiki(h) ==
    IF h = <<>> THEN <<>>
    ELSE LET h1 == SubTag(h, "<h1>", "</h1>", HeadingPre(1), HeadingPost(1))
             h2 == SubTag(h1, "<h2>", "</h2>", HeadingPre(2), HeadingPost(2))
             h3 == SubTag(h2, "<h3>", "</h3>", HeadingPre(3), HeadingPost(3))
             h4 == SubTag(h3, "<h4>", "</h4>", HeadingPre(4), HeadingPost(4))
             st == SubTag(h4, "<strong>", "</strong>", <<>>, <<>>)
             b  == SubTag(st, "<b>", "</b>", <<"'''">>, <<"'''">>)
             em == SubTag(b, "<em>", "</em>", <<"''">>, <<"''">>)
             it == SubTag(em, "<i>", "</i>", <<"''">>, <<"''">>)
             pp == SubTag(it, "<p>", "</p>", <<>>, <<"\n", "\n">>)
             br == SubBr(pp)
             ul == SubListFrom(br, 1, "<ul>", "</ul>", "*")
             ol == SubListFrom(ul, 1, "<ol>", "</ol>", "#")
             an == SubTag(ol, AnchorOpen, "</a>", <<"[", AnchorUrl, " ">>, <<"]">>)
         IN Strip(CollapseNewlines(an, 1))

-----------------------------------------------------------------------------
(* parse_citations *)

Markers == {"[1]", "[2]"}

\* group(1) of \[(\d+)\]
MarkerNum(t) == IF t = "[1]" THEN "1" ELSE "2"

NoMatch == [ok |-> FALSE, start |-> 0, end |-> 0, num |-> "", body |-> <<>>]

\* A match of r"<p>\s*\[(\d+)\]\s*(.+?)</p>" (DOTALL) that starts at position i.
\* The second \s* is greedy and (.+?) takes at least one character, then as few
\* as possible up to a "</p>"; when the whitespace run ends right at a "</p>",
\* the run gives its last character back to the body.
DefMatch(txt, i) ==
    LET m  == SkipSpace(txt, i + 1)
        b  == SkipSpace(txt, m + 1)
        j  == FirstIn(txt, b + 1, {"</p>"})
    IN IF txt[i] # "<p>" \/ m > Len(txt) THEN NoMatch
       ELSE IF txt[m] \notin Markers \/ b > Len(txt) THEN NoMatch
       ELSE IF j # 0
       THEN [ok |-> TRUE, start |-> i, end |-> j, num |-> MarkerNum(txt[m]),
             body |-> SubSeq(txt, b, j - 1)]
       ELSE IF txt[b] = "</p>" /\ b > m + 1
       THEN [ok |-> TRUE, start |-> i, end |-> b, num |-> MarkerNum(txt[m]),
             body |-> SubSeq(txt, b - 1, b - 1)]
       ELSE NoMatch

\* list(re.finditer(citation_pattern, text, flags=re.DOTALL)), from position i
RECURSIVE FindDefs(_, _)
FindDefs(txt, i) ==
    IF i > Len(txt) THEN <<>>
    ELSE LET d == DefMatch(txt, i)
         IN IF d.ok THEN <<d>> \o FindDefs(txt, d.end + 1)
            ELSE FindDefs(txt, i + 1)

\* re.sub(citation_pattern, "", text, flags=re.DOTALL), from position i
RECURSIVE RemoveDefs(_, _)
RemoveDefs(txt, i) ==
    IF i > Len(txt) THEN <<>>
    ELSE LET d == DefMatch(txt, i)
         IN IF d.ok THEN RemoveDefs(txt, d.end + 1)
            ELSE <<txt[i]>> \o RemoveDefs(txt, i + 1)

\* re.sub(r"<p>\s*</p>", "", text), from position i
RECURSIVE RemoveEmptyParas(_, _)
RemoveEmptyParas(txt, i) ==
    IF i > Len(txt) THEN <<>>
    ELSE LET j == SkipSpace(txt, i + 1)
         IN IF txt[i] = "<p>" /\ j <= Len(txt) /\ txt[j] = "</p>"
            THEN RemoveEmptyParas(txt, j + 1)
            ELSE <<txt[i]>> \o RemoveEmptyParas(txt, i + 1)

\* Whether s from position i to its end matches (<p>\s*</p>\s*)+
RECURSIVE IsEmptyParaRun(_, _)
IsEmptyParaRun(s, i) ==
    LET j == SkipSpace(s, i + 1)
        n == SkipSpace(s, j + 1)
    IN /\ i <= Len(s) /\ s[i] = "<p>"
       /\ j <= Len(s) /\ s[j] = "</p>"
       /\ (n > Len(s) \/ IsEmptyParaRun(s, n))

\* re.sub(r"(<p>\s*</p>\s*)+$", "", s): the leftmost start of a run that reaches
\* the end is where the txt is cut.
RemoveTrailingEmptyParas(s) ==
    IF \E p \in DOMAIN s : IsEmptyParaRun(s, p)
    THEN LET p == CHOOSE q \in DOMAIN s :
                      IsEmptyParaRun(s, q) /\ \A r \in 1..(q - 1) : ~IsEmptyParaRun(s, r)
         IN SubSeq(s, 1, p - 1)
    ELSE s

EmptyDict == [k \in {} |-> <<>>]

DictSet(d, k, v) == [x \in DOMAIN d \cup {k} |-> IF x = k THEN v ELSE d[x]]

\* An assignment all_citations = citations in place of the update: the maps
\* of the earlier parts are lost
DictReplace(d, e) == e

\* dict.update
DictUpdate(d, e) == [x \in DOMAIN d \cup DOMAIN e |-> IF x \in DOMAIN e THEN e[x] ELSE d[x]]

\* The loop over reversed(citation_matches): citations[num] = group(2).strip()
RECURSIVE CitationsOf(_, _, _)
CitationsOf(matches, k, citations) ==
    IF k = 0 THEN citations
    ELSE CitationsOf(matches, k - 1, DictSet(citations, matches[k].num, Strip(matches[k].body)))

\* f"{part_id}_{num}"
RefName(part_id, num) == part_id \o "_" \o num

\* A leftover test that never finds content: the text is cut at the first
\* definition whatever follows it
NonCitationContentNone(text_after_first_citation) == <<>>

\* What is left of the txt after the first citation once the definitions and
\* the empty paragraphs are taken out
NonCitationContent(text_after_first_citation) ==
    Strip(RemoveEmptyParas(RemoveDefs(text_after_first_citation, 1), 1))

parse_citations(txt, part_id) ==
    LET citation_matches == FindDefs(txt, 1)
    IN IF txt = <<>> \/ citation_matches = <<>>
       THEN [cleaned_text |-> txt, citation_map |-> EmptyDict]
       ELSE LET citations == CitationsOf(citation_matches, Len(citation_matches), EmptyDict)
                citation_start == citation_matches[1].start
                text_after_first_citation == SubSeq(txt, citation_start, Len(txt))
            IN IF NonCitationContent(text_after_first_citation) = <<>>
               THEN [cleaned_text |->
                        RemoveTrailingEmptyParas(RStrip(SubSeq(txt, 1, citation_start - 1))),
                     citation_map |->
                        [key \in {RefName(part_id, num) : num \in DOMAIN citations} |->
                            citations[CHOOSE num \in DOMAIN citations :
                                          RefName(part_id, num) = key]]]
               ELSE [cleaned_text |-> txt, citation_map |-> EmptyDict]

-----------------------------------------------------------------------------
(* replace_citation_refs *)

RefFull(ref_name, citation_text) ==
    <<"<ref name=\"" \o ref_name \o "\">">> \o citation_text \o <<"</ref>">>

RefShort(ref_name) == <<"<ref name=\"" \o ref_name \o "\" />">>

\* (?<!^)\[(\d+)\] with re.MULTILINE: a marker that does not start a line
IsInlineMarker(txt, i) ==
    txt[i] \in Markers /\ i > 1 /\ txt[i - 1] # "\n"

\* A first use that is not recorded
MarkUsedNever(used, ref_name) == used

\* used_refs[ref_name] = True
MarkUsed(used, ref_name) == used \cup {ref_name}

\* re.sub with replace_ref, from position i; used_refs is updated in place, so the
\* result carries it.
RECURSIVE ReplaceRefsFrom(_, _, _, _, _, _)
ReplaceRefsFrom(txt, i, part_id, table, used, out) ==
    IF i > Len(txt) THEN [text |-> out, used_refs |-> used]
    ELSE IF ~IsInlineMarker(txt, i)
    THEN ReplaceRefsFrom(txt, i + 1, part_id, table, used,
                         Append(out, txt[i]))
    ELSE LET ref_name == RefName(part_id, MarkerNum(txt[i]))
         IN IF ref_name \notin DOMAIN table
            THEN ReplaceRefsFrom(txt, i + 1, part_id, table, used,
                                 Append(out, txt[i]))
            ELSE IF ref_name \in used
            THEN ReplaceRefsFrom(txt, i + 1, part_id, table, used,
                                 out \o RefShort(ref_name))
            ELSE ReplaceRefsFrom(txt, i + 1, part_id, table,
                                 MarkUsed(used, ref_name),
                                 out \o RefFull(ref_name, table[ref_name]))

\* A lookup all_citations.get(ref_name, "") in place of the membership test: a
\* key that is not in the table counts as an empty citation
replace_citation_refs_default(txt, part_id, table, used) ==
    ReplaceRefsFrom(txt, 1, part_id,
                    [k \in DOMAIN table \cup {RefName(part_id, MarkerNum(m)) : m \in Markers} |->
                        IF k \in DOMAIN table THEN table[k] ELSE <<>>],
                    used, <<>>)

replace_citation_refs(txt, part_id, table, used) ==
    ReplaceRefsFrom(txt, 1, part_id, table, used, <<>>)

-----------------------------------------------------------------------------
(* get_lead_resource, get_images.  An Optional[Dict] is a sequence of at   *)
(* most one record: <<>> is None.                                           *)

\* self.resources.get(resource_id)
ResourcesGet(self, resource_id) ==
    IF InDict(self.resources, resource_id)
    THEN <<DictGet(self.resources, resource_id)>>
    ELSE <<>>

\* A variant that honours the last LEAD_RESOURCE relation
get_lead_resource_last(self, entity_id) ==
    LET lead_rels == get_relations_by_type(self, entity_id, "LEAD_RESOURCE")
    IN IF lead_rels # <<>>
       THEN ResourcesGet(self, Get(lead_rels[Len(lead_rels)], "relTar", None))
       ELSE <<>>

get_lead_resource(self, entity_id) ==
    LET lead_rels == get_relations_by_type(self, entity_id, "LEAD_RESOURCE")
    IN IF lead_rels # <<>>
       THEN ResourcesGet(self, Get(lead_rels[1], "relTar", None))
       ELSE <<>>

RECURSIVE ImagesOf(_, _)
ImagesOf(self, image_rels) ==
    IF image_rels = <<>> THEN <<>>
    ELSE ResourcesGet(self, Get(Head(image_rels), "relTar", None))
             \o ImagesOf(self, Tail(image_rels))

get_images(self, entity_id) ==
    ImagesOf(self, get_relations_by_type(self, entity_id, "IMAGE"))

-----------------------------------------------------------------------------
(* generate_infobox and the pieces of generate_article.  A line is a token  *)
(* sequence; a field value that is a plain string is one token.             *)

\* x.get(k) used as a condition: present and not empty
HasStr(r, k) == k \in DOMAIN r /\ r[k] # ""

HasText(r, k) == k \in DOMAIN r /\ r[k] # <<>>

ImageName(id) == "Deckenmalerei_" \o id \o ".jpg"

\* The lead image lines of the infobox
InfoboxLead(self, text_entity) ==
    LET lead == get_lead_resource(self, text_entity.ID)
    IN IF lead # <<>> /\ HasStr(lead[1], "resProvider")
       THEN <<(<<"| bild = ", ImageName(text_entity.ID)>>)>>
                \o (IF HasStr(lead[1], "resLicense")
                    THEN <<(<<"| lizenz = ", lead[1].resLicense>>)>>
                    ELSE <<>>)
       ELSE <<>>

RECURSIVE RelatedNames(_, _)
RelatedNames(self, related) ==
    IF related = <<>> THEN <<>>
    ELSE LET tar == Get(Head(related), "relTar", None)
         IN (IF InDict(self.entities, tar) /\ HasStr(DictGet(self.entities, tar), "appellation")
             THEN <<(<<DictGet(self.entities, tar).appellation>>)>>
             ELSE <<>>)
                \o RelatedNames(self, Tail(related))

RoleTypes == <<"AUTHORS", "PAINTERS", "ARCHITECTS", "COMMISSIONERS">>

\* rel_type.lower().rstrip("s")
RoleLabel(rel_type) ==
    CASE rel_type = "AUTHORS" -> "author"
      [] rel_type = "PAINTERS" -> "painter"
      [] rel_type = "ARCHITECTS" -> "architect"
      [] OTHER -> "commissioner"

RECURSIVE InfoboxRoles(_, _, _)
InfoboxRoles(self, text_entity, n) ==
    IF n > Len(RoleTypes) THEN <<>>
    ELSE LET names == RelatedNames(self,
                          get_relations_by_type(self, text_entity.ID, RoleTypes[n]))
         IN (IF names # <<>>
             THEN <<(<<"| " \o RoleLabel(RoleTypes[n]) \o " = ">> \o Join(names, <<", ">>))>>
             ELSE <<>>)
                \o InfoboxRoles(self, text_entity, n + 1)

generate_infobox(self, text_entity) ==
    Join(<<(<<"{{Infobox Deckenmalerei">>)>>
         \o (IF HasStr(text_entity, "appellation")
             THEN <<(<<"| titel = ", text_entity.appellation>>)>> ELSE <<>>)
         \o (IF HasStr(text_entity, "shortText")
             THEN <<(<<"| beschreibung = ", text_entity.shortText>>)>> ELSE <<>>)
         \o InfoboxLead(self, text_entity)
         \o InfoboxRoles(self, text_entity, 1)
         \o (IF HasStr(text_entity, "ID")
             THEN <<(<<"| entity_id = ", text_entity.ID>>)>> ELSE <<>>)
         \o <<(<<"}}">>)>>,
         <<"\n">>)

\* Lines 310-320: infobox, empty line, introduction
ArticleHead(self, text_entity) ==
    <<generate_infobox(self, text_entity), <<>>>>
        \o (IF HasStr(text_entity, "shortText")
            THEN <<(<<text_entity.shortText>>), <<>>>> ELSE <<>>)

\* Lines 339-342: the section header of a part
PartHeader(part) ==
    IF HasStr(part, "appellation")
    THEN <<(<<"= ", part.appellation, " =">>), <<>>>> ELSE <<>>

\* Lines 344-350: the standalone lead image of a part
PartLeadImage(self, part) ==
    LET part_lead_resource == get_lead_resource(self, part.ID)
    IN IF part_lead_resource # <<>> /\ HasStr(part_lead_resource[1], "resProvider")
       THEN <<(<<"[[File:", ImageName(part.ID), "|thumb|",
                 Get(part_lead_resource[1], "appellation", ""), "]]">>), <<>>>>
       ELSE <<>>

RECURSIVE GalleryLines(_)
GalleryLines(part_images) ==
    IF part_images = <<>> THEN <<>>
    ELSE <<(<<"File:", ImageName(Head(part_images).ID), "|",
              Get(Head(part_images), "appellation", "")>>)>>
             \o GalleryLines(Tail(part_images))

\* Lines 362-371: the image gallery of a part
PartGallery(self, part) ==
    LET part_images == get_images(self, part.ID)
    IN IF part_images # <<>>
       THEN <<(<<"<gallery>">>)>> \o GalleryLines(part_images)
                \o <<(<<"</gallery>">>), <<>>>>
       ELSE <<>>

\* Lines 373-377: the bibliography
ArticleTail(text_entity) ==
    IF HasText(text_entity, "bibliography")
    THEN <<(<<"== Literatur ==">>), html_to_mediawiki(text_entity.bibliography), <<>>>>
    ELSE <<>>

\* entity.get("appellation", f"Untitled_{entity['ID']}")
TitleOf(entity) == Get(entity, "appellation", "Untitled_" \o entity.ID)

\* list[:n]
PySlice(list, n) ==
    IF n >= 0 THEN SubSeq(list, 1, IF n < Len(list) THEN n ELSE Len(list))
    ELSE SubSeq(list, 1, Len(list) + n)

\* Lines 391-392: if max_articles: text_entities = text_entities[:max_articles].
\* max_articles is <<>> for None, <<n>> for the integer n; 0 is falsy.
LimitEntities(list, limit) ==
    IF limit # <<>> /\ limit[1] # 0
    THEN PySlice(list, limit[1]) ELSE list

\* importer.py line 200: parser.get_text_entities()[: self.max_articles]
ImporterSelect(list, limit) ==
    IF limit = <<>> THEN list ELSE PySlice(list, limit[1])

-----------------------------------------------------------------------------
(* What the reads leave of the index.  relations_by_source is a             *)
(* defaultdict(list): a subscript with a missing key would add the key,     *)
(* .get() does not.                                                         *)

\* A read self.relations_by_source[entity_id]: a missing key is added with []
IndexAfterSubscript(idx, entity_id) ==
    IF entity_id \in DOMAIN idx THEN idx
    ELSE [k \in DOMAIN idx \cup {entity_id} |-> IF k = entity_id THEN <<>> ELSE idx[k]]

\* Line 55: self.relations_by_source.get(entity_id, []) adds no key
IndexAfterLookup(idx, entity_id) == idx

\* A sort of the entity's list in the index itself
IndexAfterSortInPlace(idx, entity_id) ==
    IF entity_id \in DOMAIN idx
    THEN [idx EXCEPT ![entity_id] = SortByRelOrd(@, <<>>)]
    ELSE idx

\* Line 67: part_relations.sort(...) sorts the list that the comprehension of
\* get_relations_by_type (lines 53-57) built, not the list in the index
IndexAfterSort(idx, entity_id) == idx

\* The index after get_relations_by_type was called for each of ids, and, when
\* sorting, each result was sorted as collect_parts_recursive does
RECURSIVE IndexAfterReads(_, _, _)
IndexAfterReads(idx, ids, sorting) ==
    IF ids = {} THEN idx
    ELSE LET id     == CHOOSE x \in ids : TRUE
             looked == IndexAfterLookup(idx, id)
         IN IndexAfterReads(IF sorting THEN IndexAfterSort(looked, id) ELSE looked,
                            ids \ {id}, sorting)

\* The entities collect_parts_recursive is called for when the traversal
\* starts at the entities of S and runs to its end
RECURSIVE TraversalCalls(_, _)
TraversalCalls(self, S) ==
    LET targets(u) ==
            {Get(get_relations_by_type(self, u, "PART")[k], "relTar", None) :
                k \in DOMAIN get_relations_by_type(self, u, "PART")}
        N == S \cup {t \in UNION {targets(u) : u \in S} : InDict(self.entities, t)}
    IN IF N = S THEN S ELSE TraversalCalls(self, N)

GetTextParts ==
    /\ pc = "loaded"
    /\ \E e \in DOMAIN get_text_entities(Self) :
          LET id == get_text_entities(Self)[e].ID
              res == get_text_parts(Self, id)
          IN /\ root' = id
             /\ parts' = res.parts
             /\ raised' = IF res.err THEN "RecursionError" ELSE ""
             /\ pc' = IF res.err THEN "failed" ELSE "parts_done"
             /\ relations_by_source' =
                    IndexAfterReads(relations_by_source, TraversalCalls(Self, {id}), TRUE)
    /\ UNCHANGED <<files, entities, relations, resources, lead_resource, gen, doc, fn>>

GetLeadResource ==
    /\ pc = "loaded"
    /\ \E e \in DOMAIN entities :
          /\ root' = entities[e].ID
          /\ lead_resource' = get_lead_resource(Self, entities[e].ID)
          /\ relations_by_source' = IndexAfterLookup(relations_by_source, entities[e].ID)
    /\ pc' = "lead_done"
    /\ UNCHANGED <<files, entities, relations, resources, raised, parts, gen, doc, fn>>

-----------------------------------------------------------------------------
(* import_from_parser and generate_all_articles *)

MaxLimit == 3

\* The limits a caller passes: None, or an integer
Limits == {<<>>} \cup {<<n>> : n \in -1..MaxLimit}

RECURSIVE IDsOf(_)
IDsOf(list) == IF list = <<>> THEN <<>> ELSE <<Head(list).ID>> \o IDsOf(Tail(list))

\* importer.py lines 199-254: the selection and the image loop
ImportSelect ==
    /\ pc = "loaded"
    /\ \E m \in Limits, enable_images \in BOOLEAN :
          /\ max_articles' = m
          /\ import_entities' = ImporterSelect(get_text_entities(Self), m)
          /\ images_for' = IF enable_images
                           THEN IDsOf(ImporterSelect(get_text_entities(Self), m))
                           ELSE <<>>
          /\ relations_by_source' =
                 IF enable_images
                 THEN LET sel == ImporterSelect(get_text_entities(Self), m)
                      IN IndexAfterReads(relations_by_source,
                             TraversalCalls(Self, {sel[k].ID : k \in DOMAIN sel}), TRUE)
                 ELSE relations_by_source
    /\ pc' = "imported"
    /\ UNCHANGED <<files, entities, relations, resources, raised, query, text_entities,
                   entity_idx, articles, doc, fn>>

\* parser.py lines 389-394, called by the importer with its max_articles
GenerateAllFromImporter ==
    /\ pc = "imported"
    /\ text_entities' = LimitEntities(get_text_entities(Self), max_articles)
    /\ articles' = EmptyDict
    /\ entity_idx' = 1
    /\ pc' = "gen"
    /\ UNCHANGED <<files, store, raised, query, max_articles, import_entities, images_for,
                   doc, fn>>

\* parser.py lines 389-394: generate_all_articles(m) on a loaded parser
GenerateAll(m) ==
    /\ pc = "loaded"
    /\ max_articles' = m
    /\ text_entities' = LimitEntities(get_text_entities(Self), m)
    /\ articles' = EmptyDict
    /\ entity_idx' = 1
    /\ pc' = "gen"
    /\ UNCHANGED <<files, store, raised, query, import_entities, images_for, doc, fn>>

\* save_articles_to_files(max_articles=m), for any limit
GenerateAllDirect == \E m \in Limits : GenerateAll(m)

\* main(): parser.save_articles_to_files(), the limit left at None
GenerateAllDefault == GenerateAll(<<>>)

\* generate_article lines 310-325: up to the first pass
ArticleBegin ==
    /\ pc = "gen"
    /\ entity_idx <= Len(text_entities)
    /\ LET text_entity == text_entities[entity_idx]
           res == get_text_parts(Self, text_entity.ID)
       IN IF res.err
          THEN /\ pc' = "failed"
               /\ raised' = "RecursionError"
               /\ UNCHANGED doc
          ELSE /\ article_parts' = ArticleHead(Self, text_entity)
               /\ text_parts' = res.parts
               /\ all_citations' = EmptyDict
               /\ part_texts' = EmptyDict
               /\ part_idx' = 1
               /\ pc' = "pass1"
               /\ UNCHANGED <<raised, used_refs>>
    /\ relations_by_source' =
           IndexAfterReads(relations_by_source,
                           TraversalCalls(Self, {text_entities[entity_idx].ID}), TRUE)
    /\ UNCHANGED <<files, entities, relations, resources, query, gen, fn>>

\* Lines 327-333: one iteration of the first pass
Pass1Step ==
    /\ pc = "pass1"
    /\ part_idx <= Len(text_parts)
    /\ LET part == text_parts[part_idx]
           res == parse_citations(part.text, part.ID)
       IN IF HasText(part, "text")
          THEN /\ part_texts' = DictSet(part_texts, part.ID, res.cleaned_text)
               /\ all_citations' = DictUpdate(all_citations, res.citation_map)
          ELSE UNCHANGED <<part_texts, all_citations>>
    /\ part_idx' = part_idx + 1
    /\ UNCHANGED <<files, store, pc, raised, query, gen, text_parts, used_refs,
                   article_parts, fn>>

\* A second pass that goes on with the used_refs dict of the document before
Pass2BeginShared ==
    /\ pc = "pass1"
    /\ part_idx > Len(text_parts)
    /\ part_idx' = 1
    /\ pc' = "pass2"
    /\ UNCHANGED <<files, store, raised, query, gen, text_parts, all_citations, part_texts,
                   used_refs, article_parts, fn>>

\* Line 336: used_refs = {}
Pass2Begin ==
    /\ pc = "pass1"
    /\ part_idx > Len(text_parts)
    /\ used_refs' = {}
    /\ part_idx' = 1
    /\ pc' = "pass2"
    /\ UNCHANGED <<files, store, raised, query, gen, text_parts, all_citations, part_texts,
                   article_parts, fn>>

\* Lines 352-360 for one part: the text with its references resolved, converted
PartBody(part, res) ==
    IF HasText(part, "text") /\ part.ID \in DOMAIN part_texts
    THEN <<html_to_mediawiki(res.text), <<>>>>
    ELSE <<>>

\* Lines 338-371: one iteration of the second pass
Pass2Step ==
    /\ pc = "pass2"
    /\ part_idx <= Len(text_parts)
    /\ LET part == text_parts[part_idx]
           res == replace_citation_refs(part_texts[part.ID], part.ID, all_citations,
                                        used_refs)
       IN /\ article_parts' = article_parts \o PartHeader(part) \o PartLeadImage(Self, part)
                                  \o PartBody(part, res) \o PartGallery(Self, part)
          /\ used_refs' = IF HasText(part, "text") /\ part.ID \in DOMAIN part_texts
                          THEN res.used_refs ELSE used_refs
    /\ part_idx' = part_idx + 1
    /\ relations_by_source' = IndexAfterLookup(relations_by_source, text_parts[part_idx].ID)
    /\ UNCHANGED <<files, entities, relations, resources, pc, raised, query, gen, text_parts,
                   all_citations, part_texts, fn>>

\* A dict that keeps the first value written under a key
ArticlesSetFirst(d, title, content) == IF title \in DOMAIN d THEN d ELSE DictSet(d, title, content)

\* articles[title] = content
ArticlesSet(d, title, content) == DictSet(d, title, content)

\* Lines 373-379 and 396-398: the bibliography, the joined text, the dict entry
ArticleEnd ==
    /\ pc = "pass2"
    /\ part_idx > Len(text_parts)
    /\ LET entity == text_entities[entity_idx]
           content == Join(article_parts \o ArticleTail(entity), <<"\n">>)
       IN articles' = ArticlesSet(articles, TitleOf(entity), content)
    /\ article_parts' = article_parts \o ArticleTail(text_entities[entity_idx])
    /\ entity_idx' = entity_idx + 1
    /\ pc' = "gen"
    /\ UNCHANGED <<files, store, raised, query, max_articles, import_entities, images_for,
                   text_entities, text_parts, part_idx, all_citations, part_texts,
                   used_refs, fn>>

\* Line 401: return articles
GenerateAllReturn ==
    /\ pc = "gen"
    /\ entity_idx > Len(text_entities)
    /\ pc' = "done"
    /\ UNCHANGED <<files, store, raised, query, gen, doc, fn>>

-----------------------------------------------------------------------------
(* Calls of the pure text functions *)

Convert ==
    /\ pc = "start"
    /\ wiki' = html_to_mediawiki(html)
    /\ pc' = "converted"
    /\ UNCHANGED <<files, store, raised, query, gen, doc, html, text, cleaned_text,
                   citation_map, used_before, resolved>>

ParseCitations ==
    /\ pc = "start"
    /\ LET res == parse_citations(text, "P")
       IN /\ cleaned_text' = res.cleaned_text
          /\ citation_map' = res.citation_map
    /\ pc' = "parsed"
    /\ UNCHANGED <<files, store, raised, query, gen, doc, html, wiki, text, used_before,
                   resolved>>

\* A call replace_citation_refs(text, "P", all_citations, used_refs); the dict
\* used_refs is the caller's and is updated in place
ReplaceCitationRefs ==
    /\ pc = "start"
    /\ LET res == replace_citation_refs(text, "P", all_citations, used_refs)
       IN /\ resolved' = res.text
          /\ used_refs' = res.used_refs
    /\ used_before' = used_refs
    /\ pc' = "resolved"
    /\ UNCHANGED <<files, store, raised, query, gen, text_parts, part_idx, all_citations,
                   part_texts, article_parts, html, wiki, text, cleaned_text, citation_map>>

-----------------------------------------------------------------------------
(* Initial states *)

EmptyIndex == [k \in {} |-> <<>>]

InitParser ==
    /\ entities = <<>>
    /\ relations = <<>>
    /\ relations_by_source = EmptyIndex
    /\ resources = <<>>
    /\ pc = "start"
    /\ raised = ""

InitQuery ==
    /\ root = None
    /\ parts = <<>>
    /\ lead_resource = <<>>

InitGen ==
    /\ max_articles = <<>>
    /\ import_entities = <<>>
    /\ images_for = <<>>
    /\ text_entities = <<>>
    /\ entity_idx = 0
    /\ articles = EmptyDict

InitDoc ==
    /\ text_parts = <<>>
    /\ part_idx = 0
    /\ all_citations = EmptyDict
    /\ part_texts = EmptyDict
    /\ used_refs = {}
    /\ article_parts = <<>>

InitFn ==
    /\ html = <<>>
    /\ wiki = <<>>
    /\ text = <<>>
    /\ cleaned_text = <<>>
    /\ citation_map = EmptyDict
    /\ used_before = {}
    /\ resolved = <<>>

-----------------------------------------------------------------------------
(* Specification of the PART traversal: one TEXT entity, three TEXT_PART    *)
(* entities (C is reachable through A only), and every relations file of   *)
(* at most MaxRels PART relations from T or A, with relOrd 0, 1 or absent;  *)
(* T may point at X, an entity that does not exist, and A at itself.        *)

PartEntities ==
    << [ID |-> "T", sType |-> "TEXT"],
       [ID |-> "A", sType |-> "TEXT_PART"],
       [ID |-> "B", sType |-> "TEXT_PART"],
       [ID |-> "C", sType |-> "TEXT_PART"] >>

PartRel(s, t, withOrd, o) ==
    IF withOrd
    THEN [ID |-> s, relTar |-> t, sType |-> "PART", relDir |-> "->", relOrd |-> o]
    ELSE [ID |-> s, relTar |-> t, sType |-> "PART", relDir |-> "->"]

PartTargets(s) == IF s = "T" THEN {"A", "B", "X"} ELSE {"A", "B", "C"}

PartRels ==
    UNION {UNION {{PartRel(s, t, TRUE, 0), PartRel(s, t, TRUE, 1), PartRel(s, t, FALSE, 0)} :
                     t \in PartTargets(s)} : s \in {"T", "A"}}

Init ==
    /\ entities_file = PartEntities
    /\ relations_file \in BoundedSeq(PartRels, MaxRels)
    /\ resources_file = <<>>
    /\ InitParser /\ InitQuery /\ InitGen /\ InitDoc /\ InitFn

Next ==
    \/ load_data
    \/ GetTextParts

Spec == Init /\ [][Next]_vars

-----------------------------------------------------------------------------

-----------------------------------------------------------------------------
(* Specification of load_data on files with missing fields: up to           *)
(* MaxEntRecs entities, MaxRelRecs relations of either direction and        *)
(* MaxResRecs resources, each record with or without its ID.                *)

MaxEntRecs == 2

MaxRelRecs == 2

MaxResRecs == 1

LoadEntityRecs ==
    {[sType |-> "TEXT"], [ID |-> "e1", sType |-> "TEXT"], [ID |-> "e2", sType |-> "TEXT"]}

LoadRelationRecs ==
    {[ID |-> "e1", relTar |-> "e2", sType |-> "PART", relDir |-> d] : d \in {"->", "<-"}}
    \cup {[relTar |-> "e2", sType |-> "PART", relDir |-> d] : d \in {"->", "<-"}}
    \cup {[ID |-> "e2", relTar |-> "e1", sType |-> "PART"], [relTar |-> "e1", sType |-> "PART"]}

LoadResourceRecs ==
    {[appellation |-> "img"], [ID |-> "r1", appellation |-> "img"],
     [ID |-> "r2", appellation |-> "img"]}

InitLoad ==
    /\ entities_file \in BoundedSeq(LoadEntityRecs, MaxEntRecs)
    /\ relations_file \in BoundedSeq(LoadRelationRecs, MaxRelRecs)
    /\ resources_file \in BoundedSeq(LoadResourceRecs, MaxResRecs)
    /\ InitParser /\ InitQuery /\ InitGen /\ InitDoc /\ InitFn

NextLoad == load_data

SpecLoad == InitLoad /\ [][NextLoad]_vars

-----------------------------------------------------------------------------
(* Specification of get_lead_resource: two entities, two resources, and     *)
(* every relations file of at most MaxLeadRels LEAD_RESOURCE or IMAGE       *)
(* relations, some to a resource that does not exist, some with no target.  *)

MaxLeadRels == 3

LeadEntities == << [ID |-> "T", sType |-> "TEXT"], [ID |-> "A", sType |-> "TEXT_PART"] >>

LeadResources ==
    << [ID |-> "R1", appellation |-> "one", resProvider |-> "http://one"],
       [ID |-> "R2", appellation |-> "two", resProvider |-> "http://two"] >>

LeadRels ==
    {[ID |-> s, relTar |-> t, sType |-> y, relDir |-> "->"] :
        s \in {"T", "A"}, t \in {"R1", "R2", "RX"}, y \in {"LEAD_RESOURCE", "IMAGE"}}
    \cup {[ID |-> s, sType |-> "LEAD_RESOURCE", relDir |-> "->"] : s \in {"T", "A"}}

InitLead ==
    /\ entities_file = LeadEntities
    /\ relations_file \in BoundedSeq(LeadRels, MaxLeadRels)
    /\ resources_file = LeadResources
    /\ InitParser /\ InitQuery /\ InitGen /\ InitDoc /\ InitFn

NextLead ==
    \/ load_data
    \/ GetLeadResource

SpecLead == InitLead /\ [][NextLead]_vars

-----------------------------------------------------------------------------
(* Specification of html_to_mediawiki: every text of at most MaxPlain       *)
(* characters without tags, and every concatenation of at most MaxBlocks     *)
(* blocks of markup.                                                        *)

MaxPlain == 5

MaxBlocks == 3

RECURSIVE Flatten(_)
Flatten(list) == IF list = <<>> THEN <<>> ELSE Head(list) \o Flatten(Tail(list))

HeadingThenParagraph == <<"<h2>", "A", "</h2>", "<p>", "B", "</p>">>

HtmlBlocks ==
    { <<"<h1>", "<strong>", "A", "</strong>", "</h1>">>,
      <<"<h2>", "A", "</h2>">>, <<"<h3>", "A", "</h3>">>, <<"<h4>", "A", "</h4>">>,
      <<"<p>", "B", "</p>">>, <<"<b>", "A", "</b>">>, <<"<em>", "A", "</em>">>,
      <<"<i>", "A", "</i>">>, <<"<br>">>, <<"<br />">>, <<"\n">>, <<"A">>, <<" ">>,
      <<"<ul>", "<li>", " ", "A", "</li>", "<li>", "B", "</li>", "</ul>">>,
      <<"<ol>", "<li>", "A", "</li>", "</ol>">>,
      <<AnchorOpen, "A", "</a>">>, <<"<p>">>, <<"</p>">> }

HtmlInputs ==
    BoundedSeq({"A", " ", "\n"}, MaxPlain)
    \cup {Flatten(bs) : bs \in BoundedSeq(HtmlBlocks, MaxBlocks)}

InitConv ==
    /\ entities_file = <<>>
    /\ relations_file = <<>>
    /\ resources_file = <<>>
    /\ InitParser /\ InitQuery /\ InitGen /\ InitDoc
    /\ html \in HtmlInputs
    /\ wiki = <<>>
    /\ text = <<>>
    /\ cleaned_text = <<>>
    /\ citation_map = EmptyDict
    /\ used_before = {}
    /\ resolved = <<>>

NextConv == Convert

SpecConv == InitConv /\ [][NextConv]_vars

-----------------------------------------------------------------------------
(* Specification of parse_citations: every concatenation of at most         *)
(* MaxChunks chunks, a chunk being a character, a marker, a lone paragraph   *)
(* tag, an empty paragraph or a footnote definition.                        *)

MaxChunks == 4

Def1 == <<"<p>", "[1]", " ", "c", "</p>">>

Def2 == <<"<p>", "[2]", "d", "</p>">>

CiteChunks ==
    { <<"x">>, <<" ">>, <<"\n">>, <<"[1]">>, <<"<p>">>, <<"</p>">>,
      <<"<p>", " ", "</p>">>, Def1, Def2 }

CiteInputs == {Flatten(cs) : cs \in BoundedSeq(CiteChunks, MaxChunks)}

InitCite ==
    /\ entities_file = <<>>
    /\ relations_file = <<>>
    /\ resources_file = <<>>
    /\ InitParser /\ InitQuery /\ InitGen /\ InitDoc
    /\ html = <<>>
    /\ wiki = <<>>
    /\ text \in CiteInputs
    /\ cleaned_text = <<>>
    /\ citation_map = EmptyDict
    /\ used_before = {}
    /\ resolved = <<>>

NextCite == ParseCitations

SpecCite == InitCite /\ [][NextCite]_vars

-----------------------------------------------------------------------------
(* Specification of generate_article: the TEXT entity T with the parts P    *)
(* and Q, every relations file of at most MaxDocRels PART relations from T  *)
(* to them (a part may be listed twice), P's text a body of at most MaxBody  *)
(* characters and markers followed by nothing, by a footnote definition or  *)
(* by a definition and more content.                                        *)

MaxBody == 3

MaxDocRels == 2

DocBodies == BoundedSeq({"x", "[1]", "\n"}, MaxBody)

DocTrailers == {<<>>, Def1, Def1 \o <<"x">>}

DocTextsP == {b \o t : b \in DocBodies, t \in DocTrailers}

DocPartsQ ==
    { [ID |-> "Q", sType |-> "TEXT_PART"],
      [ID |-> "Q", sType |-> "TEXT_PART", text |-> <<"x", "[1]">>],
      [ID |-> "Q", sType |-> "TEXT_PART", appellation |-> "Q", text |-> <<"x", "[1]">> \o Def1] }

DocFixedRels ==
    << [ID |-> "T", relTar |-> "R1", sType |-> "LEAD_RESOURCE", relDir |-> "->"],
       [ID |-> "P", relTar |-> "R1", sType |-> "LEAD_RESOURCE", relDir |-> "->"],
       [ID |-> "P", relTar |-> "R1", sType |-> "IMAGE", relDir |-> "->"],
       [ID |-> "T", relTar |-> "N", sType |-> "AUTHORS", relDir |-> "->"] >>

DocPartRels == {[ID |-> "T", relTar |-> t, sType |-> "PART", relDir |-> "->"] : t \in {"P", "Q"}}

DocResources ==
    << [ID |-> "R1", appellation |-> "one", resProvider |-> "http://one", resLicense |-> "CC"] >>

InitDocSpec ==
    /\ \E tp \in DocTextsP, q \in DocPartsQ :
          entities_file =
              << [ID |-> "T", sType |-> "TEXT", appellation |-> "Doc", shortText |-> "intro",
                  bibliography |-> <<"<p>", "B", "</p>">>],
                 [ID |-> "P", sType |-> "TEXT_PART", appellation |-> "Sec", text |-> tp],
                 q,
                 [ID |-> "N", sType |-> "PERSON", appellation |-> "Name"] >>
    /\ \E rs \in BoundedSeq(DocPartRels, MaxDocRels) : relations_file = DocFixedRels \o rs
    /\ resources_file = DocResources
    /\ InitParser /\ InitQuery /\ InitGen /\ InitDoc /\ InitFn

NextDoc ==
    \/ load_data
    \/ GenerateAllDefault
    \/ ArticleBegin
    \/ Pass1Step
    \/ Pass2Begin
    \/ Pass2Step
    \/ ArticleEnd
    \/ GenerateAllReturn

SpecDoc == InitDocSpec /\ [][NextDoc]_vars

-----------------------------------------------------------------------------
(* Specification of generate_all_articles and of the importer's selection:  *)
(* up to MaxEnts entities e1, e2, ... of kind TEXT or PERSON, each with the  *)
(* title "t1", with a title that looks like a synthesized one, or with      *)
(* none; e1 and e2 share one part.  The limit is None or an integer up to   *)
(* MaxLimit.                                                                *)

MaxEnts == 3

GenIDs == <<"e1", "e2", "e3", "e4", "e5">>

GenKinds(id) ==
    {[ID |-> id, sType |-> k] : k \in {"TEXT", "PERSON"}}
    \cup {[ID |-> id, sType |-> k, appellation |-> a] :
             k \in {"TEXT", "PERSON"}, a \in {"t1", "Untitled_e1"}}

RECURSIVE GenFiles(_)
GenFiles(n) ==
    IF n = 0 THEN {<<>>}
    ELSE GenFiles(n - 1)
         \cup {Append(f, e) : f \in {g \in GenFiles(n - 1) : Len(g) = n - 1},
                              e \in GenKinds(GenIDs[n])}

GenPart == [ID |-> "p", sType |-> "TEXT_PART", text |-> <<"x", "[1]">> \o Def1]

InitGenSpec ==
    /\ \E f \in GenFiles(MaxEnts) : entities_file = f \o <<GenPart>>
    /\ relations_file =
          << [ID |-> "e1", relTar |-> "p", sType |-> "PART", relDir |-> "->"],
             [ID |-> "e2", relTar |-> "p", sType |-> "PART", relDir |-> "->"] >>
    /\ resources_file = <<>>
    /\ InitParser /\ InitQuery /\ InitGen /\ InitDoc /\ InitFn

NextGen ==
    \/ load_data
    \/ ImportSelect
    \/ GenerateAllFromImporter
    \/ GenerateAllDirect
    \/ ArticleBegin
    \/ Pass1Step
    \/ Pass2Begin
    \/ Pass2Step
    \/ ArticleEnd
    \/ GenerateAllReturn

SpecGen == InitGenSpec /\ [][NextGen]_vars


-----------------------------------------------------------------------------
(* Specification of replace_citation_refs: a cleaned text of at most        *)
(* MaxRefText characters and markers of the part P, every citation table    *)
(* over the keys P_1, P_2 and Q_1, and every used_refs that earlier parts   *)
(* of the document can have left (its keys are keys of the table).          *)

MaxRefText == 4

RefBodies == [P_1 |-> <<"c">>, P_2 |-> <<"d">>, Q_1 |-> <<"e">>]

RefTables == {[k \in K |-> RefBodies[k]] : K \in SUBSET {"P_1", "P_2", "Q_1"}}

InitRefs ==
    /\ entities_file = <<>>
    /\ relations_file = <<>>
    /\ resources_file = <<>>
    /\ InitParser /\ InitQuery /\ InitGen
    /\ text_parts = <<>>
    /\ part_idx = 0
    /\ all_citations \in RefTables
    /\ part_texts = EmptyDict
    /\ used_refs \in SUBSET DOMAIN all_citations
    /\ article_parts = <<>>
    /\ html = <<>>
    /\ wiki = <<>>
    /\ text \in BoundedSeq({"x", "\n", "[1]", "[2]"}, MaxRefText)
    /\ cleaned_text = <<>>
    /\ citation_map = EmptyDict
    /\ used_before = {}
    /\ resolved = <<>>

NextRefs == ReplaceCitationRefs

SpecRefs == InitRefs /\ [][NextRefs]_vars

-----------------------------------------------------------------------------
(* Specification of the reads after load: any number of queries, one after  *)
(* another, and then one generation of all articles.  The store is the      *)
(* TEXT entity T with the parts A, B and C and the resource R; the          *)
(* relations file holds at most MaxReadRels relations, whose relOrd need    *)
(* not follow the file order, and among them a relation to X, an entity     *)
(* that does not exist, a lead resource and an image.  A caller may ask for *)
(* the relations of any entity, and of X.                                   *)

MaxReadRels == 2

ReadResources == << [ID |-> "R", appellation |-> "one", resProvider |-> "http://one"] >>

ReadRels ==
    { PartRel("T", "A", TRUE, 1), PartRel("T", "B", TRUE, 0), PartRel("T", "B", FALSE, 0),
      PartRel("T", "X", FALSE, 0), PartRel("A", "C", TRUE, 0), PartRel("A", "A", FALSE, 0),
      [ID |-> "T", relTar |-> "R", sType |-> "LEAD_RESOURCE", relDir |-> "->"],
      [ID |-> "A", relTar |-> "R", sType |-> "IMAGE", relDir |-> "->"] }

\* get_relations_by_type(entity_id, relation_type) called from outside, for a
\* loaded entity or for X; what it returns is get_relations_by_type(Self, root, y)
GetRelationsByType ==
    /\ pc = "loaded"
    /\ \E id \in {entities[e].ID : e \in DOMAIN entities} \cup {"X"} :
          /\ root' = id
          /\ relations_by_source' = IndexAfterLookup(relations_by_source, id)
    /\ pc' = "rels_done"
    /\ UNCHANGED <<files, entities, relations, resources, raised, parts, lead_resource, gen,
                   doc, fn>>

\* A read has returned and its caller goes on to the next call
ReadReturn ==
    /\ pc \in {"rels_done", "parts_done", "lead_done"}
    /\ pc' = "loaded"
    /\ UNCHANGED <<files, store, raised, query, gen, doc, fn>>

InitReads ==
    /\ entities_file = PartEntities
    /\ relations_file \in BoundedSeq(ReadRels, MaxReadRels)
    /\ resources_file = ReadResources
    /\ InitParser /\ InitQuery /\ InitGen /\ InitDoc /\ InitFn

NextReads ==
    \/ load_data
    \/ GetRelationsByType
    \/ GetTextParts
    \/ GetLeadResource
    \/ ReadReturn
    \/ GenerateAllDefault
    \/ ArticleBegin
    \/ Pass1Step
    \/ Pass2Begin
    \/ Pass2Step
    \/ ArticleEnd
    \/ GenerateAllReturn

SpecReads == InitReads /\ [][NextReads]_vars

(* The PART graph as the store holds it, for stating the traversal claims *)

OutRels(self, u) ==
    IF u \in DOMAIN self.relations_by_source THEN self.relations_by_source[u] ELSE <<>>

\* The positions, in u's relation list, of the PART relations whose target is loaded
ChildEdges(self, u) ==
    {k \in DOMAIN OutRels(self, u) :
        /\ "sType" \in DOMAIN OutRels(self, u)[k]
        /\ OutRels(self, u)[k].sType = "PART"
        /\ "relTar" \in DOMAIN OutRels(self, u)[k]
        /\ InDict(self.entities, OutRels(self, u)[k].relTar)}

EdgeTarget(self, u, k) == OutRels(self, u)[k].relTar

RECURSIVE ReachFrom(_, _)
ReachFrom(self, S) ==
    LET N == S \cup UNION {{EdgeTarget(self, u, k) : k \in ChildEdges(self, u)} : u \in S}
    IN IF N = S THEN S ELSE ReachFrom(self, N)

\* Each reachable node has exactly one incoming PART relation, the root none
IsPartTree(self, r) ==
    LET R == ReachFrom(self, {r})
        InDeg(v) == Cardinality({e \in R \X (1..MaxRels + 1) :
                        /\ e[2] \in ChildEdges(self, e[1])
                        /\ EdgeTarget(self, e[1], e[2]) = v})
    IN \A v \in R : InDeg(v) = IF v = r THEN 0 ELSE 1

OrderOf(rel) == IF "relOrd" \in DOMAIN rel THEN rel.relOrd ELSE 0

\* Edge j of u comes before edge k of u: smaller order, ties in index order
EdgeBefore(self, u, j, k) ==
    \/ OrderOf(OutRels(self, u)[j]) < OrderOf(OutRels(self, u)[k])
    \/ OrderOf(OutRels(self, u)[j]) = OrderOf(OutRels(self, u)[k]) /\ j < k

PosOf(seq, r, v) == IF v = r THEN 0 ELSE CHOOSE i \in DOMAIN seq : seq[i].ID = v

SubtreeSize(self, v) == Cardinality(ReachFrom(self, {v}))

\* The sizes of the subtrees under the edges K of u, added up
RECURSIVE SumSubtrees(_, _, _)
SumSubtrees(self, u, K) ==
    IF K = {} THEN 0
    ELSE LET j == CHOOSE x \in K : TRUE
         IN SubtreeSize(self, EdgeTarget(self, u, j)) + SumSubtrees(self, u, K \ {j})

\* The manual pre-order enumeration: a child sits right after its parent and
\* the whole subtrees of the siblings that come before it.
IsPreOrder(self, r, seq) ==
    LET R == ReachFrom(self, {r})
    IN /\ Len(seq) = Cardinality(R) - 1
       /\ {seq[i].ID : i \in DOMAIN seq} = R \ {r}
       /\ \A i \in DOMAIN seq : seq[i] = DictGet(self.entities, seq[i].ID)
       /\ \A u \in R : \A k \in ChildEdges(self, u) :
             LET before == {j \in ChildEdges(self, u) : EdgeBefore(self, u, j, k)}
             IN PosOf(seq, r, EdgeTarget(self, u, k))
                    = PosOf(seq, r, u) + 1 + SumSubtrees(self, u, before)

\* C1: on an acyclic PART tree the traversal returns every reachable part
\* exactly once, in the pre-order in which children are ordered by relOrd
\* (missing = 0), ties in index order, each subtree right after its part.
C1_PreOrder ==
    (pc = "parts_done" /\ IsPartTree(Self, root)) => IsPreOrder(Self, root, parts)

\* A tree T -> (B, A), A -> C: the file lists B before A, B has order 1 and the
\* relation to A has no relOrd, so A comes first, then A's subtree, then B.
C1_Witness ==
    /\ pc = "parts_done"
    /\ IsPartTree(Self, root)
    /\ Len(OutRels(Self, "T")) = 2 /\ Len(OutRels(Self, "A")) = 1
    /\ OutRels(Self, "T")[1].relTar = "B" /\ OrderOf(OutRels(Self, "T")[1]) = 1
    /\ OutRels(Self, "T")[2].relTar = "A" /\ "relOrd" \notin DOMAIN OutRels(Self, "T")[2]
    /\ OutRels(Self, "A")[1].relTar = "C"
    /\ Len(parts) = 3
    /\ parts[1].ID = "A" /\ parts[2].ID = "C" /\ parts[3].ID = "B"

\* The store without the PART relations whose target is not a loaded entity
WithoutDangling(self) ==
    [self EXCEPT !.relations_by_source =
        [u \in DOMAIN self.relations_by_source |->
            SelectSeq(self.relations_by_source[u],
                      LAMBDA rel : \/ Get(rel, "sType", None) # "PART"
                                   \/ InDict(self.entities, Get(rel, "relTar", None)))]]

HasDangling(self, u) ==
    \E k \in DOMAIN OutRels(self, u) :
        /\ Get(OutRels(self, u)[k], "sType", None) = "PART"
        /\ ~InDict(self.entities, Get(OutRels(self, u)[k], "relTar", None))

\* C9: a PART relation to an entity that is not loaded raises nothing and leaves
\* no entry; the siblings of the same source, before and after it, are traversed
\* with their subtrees: the result is that of the store without such relations.
C9_UnknownTargetSkipped ==
    (pc \in {"parts_done", "failed"} /\ root # None) =>
        /\ \A i \in DOMAIN parts : InDict(entities, parts[i].ID)
        /\ pc = "parts_done" =>
              /\ \A u \in {root} \cup {parts[i].ID : i \in DOMAIN parts} :
                    \A k \in ChildEdges(Self, u) :
                        \E i \in DOMAIN parts : parts[i].ID = EdgeTarget(Self, u, k)
              /\ parts = get_text_parts(WithoutDangling(Self), root).parts
        /\ raised = "RecursionError" <=> get_text_parts(WithoutDangling(Self), root).err

\* T has a relation to the unknown X sorted between its relations to A and B
C9_Witness ==
    /\ pc = "parts_done"
    /\ Len(OutRels(Self, "T")) = 3
    /\ OutRels(Self, "T")[1].relTar = "X" /\ OrderOf(OutRels(Self, "T")[1]) = 0
    /\ OutRels(Self, "T")[2].relTar = "A" /\ OrderOf(OutRels(Self, "T")[2]) = 1
    /\ OutRels(Self, "T")[3].relTar = "B" /\ "relOrd" \notin DOMAIN OutRels(Self, "T")[3]
    /\ Len(parts) = 2 /\ parts[1].ID = "B" /\ parts[2].ID = "A"


-----------------------------------------------------------------------------
(* Claims about html_to_mediawiki, checked under SpecConv *)

Tags ==
    {"<h1>", "</h1>", "<h2>", "</h2>", "<h3>", "</h3>", "<h4>", "</h4>",
     "<strong>", "</strong>", "<b>", "</b>", "<em>", "</em>", "<i>", "</i>",
     "<p>", "</p>", "<br>", "<br />", "<ul>", "</ul>", "<ol>", "</ol>",
     "<li>", "</li>", AnchorOpen, "</a>"}

TagFree(s) == \A i \in DOMAIN s : s[i] \notin Tags

HasLongNewlineRun(s) ==
    \E i \in DOMAIN s : i + 2 <= Len(s) /\ s[i] = "\n" /\ s[i + 1] = "\n" /\ s[i + 2] = "\n"

Trimmed(s) == s = <<>> \/ (~IsSpace(s[1]) /\ ~IsSpace(s[Len(s)]))

\* C4, as the code has it: the second-level heading A immediately followed by
\* the paragraph B converts to "== A ==", ONE newline, "B"; the heading's
\* substitution ends in a single newline and the paragraph's adds none in front.
C4_HeadingParagraph ==
    (pc = "converted" /\ html = HeadingThenParagraph)
        => wiki = <<"=", "=", " ", "A", " ", "=", "=", "\n", "B">>

C4_Witness == pc = "converted" /\ html = HeadingThenParagraph /\ Len(wiki) = 9

\* C4 as stated: the output is "== A ==", a blank line, "B"
C4_Original ==
    (pc = "converted" /\ html = HeadingThenParagraph)
        => wiki = <<"=", "=", " ", "A", " ", "=", "=", "\n", "\n", "B">>

\* C5, as the code has it: a text without any recognized tag that has no
\* whitespace at either end and no run of three or more newlines comes back
\* unchanged; any other text without tags comes back trimmed at both ends and
\* with no run of three or more newlines, hence shorter than it went in.
C5_TagFreeIdentity ==
    (pc = "converted" /\ TagFree(html))
        => /\ (Trimmed(html) /\ ~HasLongNewlineRun(html)) => wiki = html
           /\ Trimmed(wiki) /\ ~HasLongNewlineRun(wiki)
           /\ (~Trimmed(html) \/ HasLongNewlineRun(html)) => Len(wiki) < Len(html)

C5_Witness ==
    /\ pc = "converted"
    /\ html = <<"A", "\n", "\n", "A", " ">>
    /\ wiki = <<"A", "\n", "\n", "A">>

\* C5 as stated: every text without tags comes back unchanged
C5_Original == (pc = "converted" /\ TagFree(html)) => wiki = html


-----------------------------------------------------------------------------
(* Claims about parse_citations, checked under SpecCite *)

AllSpace(s, a, b) == \A k \in a..b : IsSpace(s[k])

\* A footnote definition starts at position i: "<p>", whitespace, a marker,
\* whitespace, at least one character of body, and a "</p>" that closes it
IsDefinitionAt(s, i) ==
    /\ s[i] = "<p>"
    /\ \E m \in (i + 1)..Len(s), b \in (i + 2)..Len(s), j \in (i + 3)..Len(s) :
          /\ m < b /\ b < j
          /\ AllSpace(s, i + 1, m - 1)
          /\ s[m] \in Markers
          /\ AllSpace(s, m + 1, b - 1)
          /\ s[j] = "</p>"

HasDefinition(s) == \E i \in DOMAIN s : IsDefinitionAt(s, i)

\* The cut point: where the earliest-appearing definition starts
CutPoint(s) ==
    CHOOSE i \in DOMAIN s : IsDefinitionAt(s, i) /\ \A k \in 1..(i - 1) : ~IsDefinitionAt(s, k)

\* Only whitespace is left of s once its definition paragraphs and then its
\* empty paragraphs are deleted
OnlyDefinitions(s) ==
    LET rest == RemoveEmptyParas(RemoveDefs(s, 1), 1)
    IN AllSpace(rest, 1, Len(rest))

EndsWithEmptyPara(s) ==
    /\ s # <<>> /\ s[Len(s)] = "</p>"
    /\ \E p \in 1..(Len(s) - 1) : s[p] = "<p>" /\ AllSpace(s, p + 1, Len(s) - 1)

EndsWithSpace(s) == s # <<>> /\ IsSpace(s[Len(s)])

IsPrefix(s, t) == Len(s) <= Len(t) /\ s = SubSeq(t, 1, Len(s))

\* The numbers of the definitions the scan of the text finds
DefinedNums(s) == {FindDefs(s, 1)[k].num : k \in DOMAIN FindDefs(s, 1)}

BeforeCut == SubSeq(text, 1, CutPoint(text) - 1)

\* What is dropped between the cleaned text and the cut point
Dropped == SubSeq(BeforeCut, Len(cleaned_text) + 1, Len(BeforeCut))

\* What the claim says of a stripped result, but for the end of the cleaned
\* text: it is a prefix of the part before the cut, what is dropped behind it
\* is whitespace and empty paragraphs only, and every key is the part ID, "_"
\* and the number of a definition.
StrippedAtCut ==
    /\ IsPrefix(cleaned_text, BeforeCut)
    /\ OnlyDefinitions(Dropped) /\ ~HasDefinition(Dropped)
    /\ ~EndsWithEmptyPara(cleaned_text)
    /\ DOMAIN citation_map = {"P_" \o n : n \in DefinedNums(text)}
    /\ DOMAIN citation_map # {}

\* Whitespace stays at the end of the cleaned text only in front of a dropped
\* empty paragraph
SpaceOnlyBeforeEmptyPara ==
    EndsWithSpace(cleaned_text) => (Dropped # <<>> /\ Dropped[1] = "<p>")

SuffixOnlyDefinitions ==
    HasDefinition(text) /\ OnlyDefinitions(SubSeq(text, CutPoint(text), Len(text)))

FellBack == cleaned_text = text /\ citation_map = EmptyDict

\* C3, as the code has it: parse_citations strips the text and returns a
\* non-empty citation map if and only if the text has a footnote definition and
\* the suffix from the earliest one holds only whitespace once its definition
\* paragraphs and then its empty paragraphs are deleted.  Then every key is
\* partID_number and the cleaned text is the part before the cut with its
\* trailing whitespace removed and then its trailing empty paragraphs removed:
\* whitespace that stood in front of those paragraphs STAYS at the end.  In
\* every other case the original text and an empty map come back.
C3_StripOrFallback ==
    pc = "parsed" =>
        IF SuffixOnlyDefinitions
        THEN StrippedAtCut /\ SpaceOnlyBeforeEmptyPara
        ELSE FellBack

C3_Witness ==
    /\ pc = "parsed"
    /\ text = <<"x", " ", "<p>", " ", "</p>">> \o Def1
    /\ cleaned_text = <<"x", " ">>
    /\ DOMAIN citation_map = {"P_1"}

\* The fallback happens too: a definition followed by real content
C3_FallbackReached ==
    /\ pc = "parsed"
    /\ text = <<"[1]">> \o Def1 \o <<"x">>
    /\ cleaned_text = text /\ citation_map = EmptyDict

\* C3 as stated: the cleaned text has no whitespace and no empty paragraph at
\* its end
C3_Original ==
    pc = "parsed" =>
        IF SuffixOnlyDefinitions
        THEN StrippedAtCut /\ ~EndsWithSpace(cleaned_text)
        ELSE FellBack


-----------------------------------------------------------------------------
(* Claim about get_lead_resource, checked under SpecLead *)

\* The positions in the relations file of the outgoing LEAD_RESOURCE relations
\* of an entity
LeadPositions(entity_id) ==
    {k \in DOMAIN relations_file :
        /\ Get(relations_file[k], "ID", None) = entity_id
        /\ Get(relations_file[k], "relDir", None) = "->"
        /\ Get(relations_file[k], "sType", None) = "LEAD_RESOURCE"}

FirstLeadPosition(entity_id) ==
    CHOOSE k \in LeadPositions(entity_id) : \A j \in LeadPositions(entity_id) : k <= j

LoadedResource(resource_id) ==
    IF \E r \in DOMAIN resources_file : resources_file[r].ID = resource_id
    THEN <<resources_file[CHOOSE r \in DOMAIN resources_file :
                              resources_file[r].ID = resource_id]>>
    ELSE <<>>

\* C10: the lead resource of an entity is the target resource of its FIRST
\* outgoing LEAD_RESOURCE relation in file order; it is absent when the entity
\* has no such relation or when that first relation names no loaded resource,
\* whatever later LEAD_RESOURCE relations of the entity point at.
C10_FirstLeadOnly ==
    pc = "lead_done" =>
        IF LeadPositions(root) = {}
        THEN lead_resource = <<>>
        ELSE lead_resource =
                 LoadedResource(Get(relations_file[FirstLeadPosition(root)], "relTar", None))

\* The first relation's target is not loaded, a later one's is: absent
C10_Witness ==
    /\ pc = "lead_done"
    /\ lead_resource = <<>>
    /\ \E k \in LeadPositions(root) :
          /\ k # FirstLeadPosition(root)
          /\ LoadedResource(Get(relations_file[k], "relTar", None)) # <<>>

\* The first of two relations to different loaded resources decides
C10_FirstOfTwo ==
    /\ pc = "lead_done"
    /\ lead_resource # <<>>
    /\ \E k \in LeadPositions(root) :
          /\ k # FirstLeadPosition(root)
          /\ LoadedResource(Get(relations_file[k], "relTar", None)) \notin {<<>>, lead_resource}

-----------------------------------------------------------------------------
(* Claim about load_data, checked under SpecLoad *)

LacksID(list) == \E i \in DOMAIN list : "ID" \notin DOMAIN list[i]

\* C8 as stated: whenever a record of any of the three files has no ID, be it
\* an entity, a relation of whatever direction or a resource, the load fails;
\* and after a failed load none of the indices is populated.
C8_Original ==
    pc # "start" =>
        /\ (LacksID(entities_file) \/ LacksID(relations_file) \/ LacksID(resources_file))
               => (pc = "failed" /\ raised = "KeyError")
        /\ pc = "failed" =>
               (entities = <<>> /\ relations_by_source = EmptyIndex /\ resources = <<>>)

\* The failing input: the only record without an ID is a relation that is not
\* outgoing, and the load succeeds
C8_SilentlyLoaded ==
    /\ pc = "loaded"
    /\ ~LacksID(entities_file) /\ ~LacksID(resources_file)
    /\ LacksID(relations_file)

\* What load_data does: it fails exactly when an entity, an OUTGOING relation
\* or a resource has no ID; a failure on a relation or on a resource leaves the
\* entity index populated.
C8_OutgoingOnly ==
    pc # "start" =>
        /\ pc = "failed" <=>
               \/ LacksID(entities_file)
               \/ \E k \in DOMAIN relations_file :
                     /\ "relDir" \in DOMAIN relations_file[k]
                     /\ relations_file[k].relDir = "->"
                     /\ "ID" \notin DOMAIN relations_file[k]
               \/ LacksID(resources_file)
        /\ (pc = "failed" /\ ~LacksID(entities_file) /\ entities_file # <<>>)
               => entities # <<>>


-----------------------------------------------------------------------------
(* Claims about generate_all_articles, checked under SpecGen *)

IsTextKind(e) == Get(e, "sType", None) = "TEXT"

\* The TEXT entities in store order
StoreTextEntities == SelectSeq(entities, IsTextKind)

Min(a, b) == IF a <= b THEN a ELSE b

\* The first min(n, N) TEXT entities for the limit n, all of them for no limit
FirstByLimit(limit) ==
    IF limit = <<>> THEN StoreTextEntities
    ELSE SubSeq(StoreTextEntities, 1, Min(limit[1], Len(StoreTextEntities)))

Generating == pc \in {"gen", "pass1", "pass2", "done"}

\* C6 as stated: with the limit n >= 0 (0 included) the entities assembled are
\* exactly the first min(n, N) TEXT entities in store order, with no limit all
\* N; the importer's selection for the same max_articles is that same list.
C6_Original ==
    (max_articles = <<>> \/ max_articles[1] >= 0) =>
        /\ Generating => text_entities = FirstByLimit(max_articles)
        /\ pc = "done" => entity_idx = Len(FirstByLimit(max_articles)) + 1
        /\ pc = "imported" => import_entities = FirstByLimit(max_articles)

\* The failing input: the limit 0 on a store with TEXT entities; the importer
\* selected none of them, generate_all_articles assembled them all
C6_ZeroAssemblesAll ==
    /\ pc = "done"
    /\ max_articles = <<0>>
    /\ import_entities = <<>>
    /\ Len(StoreTextEntities) >= 2
    /\ text_entities = StoreTextEntities
    /\ articles # EmptyDict

\* What the code does: the stated selection for no limit and for every limit
\* n >= 1; for the limit 0, every TEXT entity is assembled while the importer
\* selects none.
C6_ZeroMeansNoLimit ==
    (max_articles = <<>> \/ max_articles[1] >= 0) =>
        /\ Generating =>
               text_entities = IF max_articles = <<0>> THEN StoreTextEntities
                               ELSE FirstByLimit(max_articles)
        /\ pc = "done" => entity_idx = Len(text_entities) + 1
        /\ pc = "imported" => import_entities = FirstByLimit(max_articles)

\* The entity a document was assembled for: its infobox ends with the line
\* "| entity_id = <ID>"
DocOwner(content) ==
    content[(CHOOSE i \in DOMAIN content : content[i] = "| entity_id = ") + 1]

LastWithTitle(title) ==
    CHOOSE k \in DOMAIN text_entities :
        /\ TitleOf(text_entities[k]) = title
        /\ \A j \in DOMAIN text_entities : TitleOf(text_entities[j]) = title => j <= k

\* C7: when generate_all_articles returns, every selected entity has been
\* assembled, without error, also when several share a derived title; the
\* mapping has exactly one entry per distinct derived title, and the entry of
\* a title is the document of the LAST selected entity, in store order, that
\* has this title.
C7_LastTitleWins ==
    pc = "done" =>
        /\ raised = ""
        /\ entity_idx = Len(text_entities) + 1
        /\ DOMAIN articles = {TitleOf(text_entities[k]) : k \in DOMAIN text_entities}
        /\ \A t \in DOMAIN articles :
              DocOwner(articles[t]) = text_entities[LastWithTitle(t)].ID

\* Three selected entities, the first and the last with the same title, the
\* one a synthesized title and the other a given one
C7_Witness ==
    /\ pc = "done"
    /\ Len(text_entities) = 3
    /\ "appellation" \notin DOMAIN text_entities[1]
    /\ "appellation" \in DOMAIN text_entities[3]
    /\ TitleOf(text_entities[1]) = TitleOf(text_entities[3])
    /\ TitleOf(text_entities[2]) # TitleOf(text_entities[1])
    /\ Cardinality(DOMAIN articles) = 2


-----------------------------------------------------------------------------
(* Claim about the reference tags of one document, checked under SpecDoc *)

FullTag(key) == "<ref name=\"" \o key \o "\">"

ShortTag(key) == "<ref name=\"" \o key \o "\" />"

\* The reference tags of a key in the document so far, in output order
RefTags(key) ==
    SelectSeq(Flatten(article_parts), LAMBDA t : t \in {FullTag(key), ShortTag(key)})

\* The number of inline markers of a key in the cleaned text of the part at
\* position k of the traversal: markers of that part's ID and the key's
\* number which do not start a line
MarkersAt(key, k) ==
    LET part == text_parts[k]
    IN IF ~HasText(part, "text") THEN 0
       ELSE LET t == part_texts[part.ID]
            IN Cardinality({i \in 2..Len(t) :
                               /\ t[i] \in Markers
                               /\ t[i - 1] # "\n"
                               /\ key = part.ID \o "_" \o MarkerNum(t[i])})

RECURSIVE MarkersUpTo(_, _)
MarkersUpTo(key, k) == IF k = 0 THEN 0 ELSE MarkersUpTo(key, k - 1) + MarkersAt(key, k)

\* The full tag is followed by the body of the key and the closing tag
FullTagHasBody(key) ==
    LET out == Flatten(article_parts)
    IN \A i \in DOMAIN out :
          out[i] = FullTag(key) =>
              LET body == all_citations[key]
              IN /\ i + Len(body) + 1 <= Len(out)
                 /\ SubSeq(out, i + 1, i + Len(body)) = body
                 /\ out[i + Len(body) + 1] = "</ref>"

\* C2: in the second pass over the parts of one document, for every key of the
\* citation table, the inline markers of the key met so far, over all parts in
\* traversal order, have each been rewritten to one tag; the first of these
\* tags is the full tag with the key's body and every later one, in the same
\* part or in a part processed later, is the short tag.
C2_FirstFullThenShort ==
    pc = "pass2" =>
        \A key \in DOMAIN all_citations :
            LET tags == RefTags(key)
            IN /\ Len(tags) = MarkersUpTo(key, part_idx - 1)
               /\ \A n \in DOMAIN tags :
                     tags[n] = IF n = 1 THEN FullTag(key) ELSE ShortTag(key)
               /\ FullTagHasBody(key)
               /\ key \in used_refs <=> tags # <<>>

\* P is listed twice and has two inline markers of its footnote: one full tag,
\* then three short ones, two of them from the second visit
C2_Witness ==
    /\ pc = "pass2"
    /\ part_idx = 3 /\ Len(text_parts) = 2
    /\ text_parts[1].ID = "P" /\ text_parts[2].ID = "P"
    /\ "P_1" \in DOMAIN all_citations
    /\ MarkersAt("P_1", 1) = 2
    /\ RefTags("P_1") = <<FullTag("P_1"), ShortTag("P_1"), ShortTag("P_1"), ShortTag("P_1")>>


-----------------------------------------------------------------------------
(* Claim about dangling markers, checked under SpecRefs *)

\* The key of the marker at position i of the text of part P
KeyAt(i) == "P_" \o MarkerNum(text[i])

\* A marker that does not start a line
InlineAt(i) == text[i] \in Markers /\ i > 1 /\ text[i - 1] # "\n"

\* An inline marker whose key is not in the citation table
DanglingAt(i) == InlineAt(i) /\ KeyAt(i) \notin DOMAIN all_citations

ResolvableAt(i) == InlineAt(i) /\ KeyAt(i) \in DOMAIN all_citations

\* What position i of the text becomes.  For a resolvable marker this looks at
\* the table, at used_refs as it came in and at the earlier resolvable markers
\* of the same key, and at nothing else.
PieceAt(i) ==
    IF ~ResolvableAt(i) THEN <<text[i]>>
    ELSE IF KeyAt(i) \in used_before
            \/ \E j \in 1..(i - 1) : ResolvableAt(j) /\ KeyAt(j) = KeyAt(i)
    THEN <<ShortTag(KeyAt(i))>>
    ELSE <<FullTag(KeyAt(i))>> \o all_citations[KeyAt(i)] \o <<"</ref>">>

\* C11: replace_citation_refs leaves a marker whose key partID_n is not in the
\* citation table as it is and adds nothing to used_refs for it; the call
\* raises nothing, and every other marker is rewritten as if the dangling
\* marker were any other character: full or short by the table, by used_refs
\* as it came in and by the earlier markers of its own key alone.
C11_DanglingLeftAlone ==
    pc = "resolved" =>
        /\ raised = ""
        /\ resolved = Flatten([i \in DOMAIN text |-> PieceAt(i)])
        /\ used_refs = used_before \cup {KeyAt(i) : i \in {j \in DOMAIN text : ResolvableAt(j)}}
        /\ \A i \in DOMAIN text : DanglingAt(i) => KeyAt(i) \notin used_refs

\* A dangling [2] between two markers of the key P_1: the first is rewritten
\* to the full tag, [2] stays, the second becomes the short tag
C11_Witness ==
    /\ pc = "resolved"
    /\ text = <<"x", "[1]", "[2]", "[1]">>
    /\ DOMAIN all_citations = {"P_1", "Q_1"}
    /\ used_before = {}
    /\ resolved = <<"x", FullTag("P_1"), "c", "</ref>", "[2]", ShortTag("P_1")>>
    /\ used_refs = {"P_1"}


-----------------------------------------------------------------------------
(* Claim about the two passes of generate_article, checked under SpecDoc *)

\* What pass 1 yields for the part at position k of the traversal
Pass1Of(k) ==
    LET part == text_parts[k]
    IN IF HasText(part, "text") THEN parse_citations(part.text, part.ID)
       ELSE [cleaned_text |-> <<>>, citation_map |-> EmptyDict]

\* The maps of the first n parts merged, a later part's entry replacing an
\* earlier one under the same key
MergedMaps(n) ==
    [key \in UNION {DOMAIN Pass1Of(k).citation_map : k \in 1..n} |->
        Pass1Of(CHOOSE k \in 1..n :
                    /\ key \in DOMAIN Pass1Of(k).citation_map
                    /\ \A j \in (k + 1)..n : key \notin DOMAIN Pass1Of(j).citation_map
               ).citation_map[key]]

TextPartIDs(n) == {text_parts[k].ID : k \in {j \in 1..n : HasText(text_parts[j], "text")}}

\* The section headers in the document so far, in output order
HeadersOut ==
    SelectSeq(article_parts, LAMBDA line : line # <<>> /\ line[1] = "= ")

RECURSIVE HeadersOf(_)
HeadersOf(n) ==
    IF n = 0 THEN <<>>
    ELSE HeadersOf(n - 1)
            \o (IF HasStr(text_parts[n], "appellation")
                THEN <<(<<"= ", text_parts[n].appellation, " =">>)>> ELSE <<>>)

\* The entity whose document is being assembled
CurrentEntity == text_entities[entity_idx]

\* C12: while one document is assembled, both passes walk the one section
\* list of the entity from its first part on, one part per step.  In pass 1
\* exactly the parts visited so far that have text are cleaned and their maps
\* merged, and nothing of pass 2 is in the document; whenever pass 2 runs, on
\* its first part as on any later one, every part with text has been through
\* pass 1, the citation table is the merge of all the per-part maps and stays
\* so, and the sections written so far are those of the first parts of the
\* list in traversal order.
C12_Pass1BeforePass2 ==
    pc \in {"pass1", "pass2"} =>
        /\ text_parts = get_text_parts(Self, CurrentEntity.ID).parts
        /\ part_idx \in 1..(Len(text_parts) + 1)
        /\ pc = "pass1" =>
              /\ DOMAIN part_texts = TextPartIDs(part_idx - 1)
              /\ all_citations = MergedMaps(part_idx - 1)
              /\ article_parts = ArticleHead(Self, CurrentEntity)
        /\ pc = "pass2" =>
              /\ DOMAIN part_texts = TextPartIDs(Len(text_parts))
              /\ \A k \in DOMAIN text_parts :
                    HasText(text_parts[k], "text")
                        => part_texts[text_parts[k].ID] = Pass1Of(k).cleaned_text
              /\ all_citations = MergedMaps(Len(text_parts))
              /\ HeadersOut = HeadersOf(part_idx - 1)

\* Pass 2 is about to run on the first of two parts, Q before P, and the table
\* already holds the footnotes of both
C12_Witness ==
    /\ pc = "pass2"
    /\ part_idx = 1
    /\ Len(text_parts) = 2
    /\ text_parts[1].ID = "Q" /\ text_parts[2].ID = "P"
    /\ DOMAIN all_citations = {"P_1", "Q_1"}
    /\ HeadersOut = <<>>

\* Pass 2 has written Q's section and is about to write P's
C12_SecondPassInOrder ==
    /\ pc = "pass2"
    /\ part_idx = 2
    /\ Len(text_parts) = 2
    /\ text_parts[1].ID = "Q" /\ text_parts[2].ID = "P"
    /\ HeadersOut = <<(<<"= ", "Q", " =">>)>>


-----------------------------------------------------------------------------
(* Claim about the end of the PART traversal, checked under Spec *)

\* The targets of the resolvable PART relations of u
Children(self, u) == {EdgeTarget(self, u, k) : k \in ChildEdges(self, u)}

\* Some entity reachable from r lies on a cycle of resolvable PART relations
CycleReachable(self, r) ==
    \E v \in ReachFrom(self, {r}) :
        Children(self, v) # {} /\ v \in ReachFrom(self, Children(self, v))

TraversalEnded == pc \in {"parts_done", "failed"}

\* C13, as the code has it: the traversal returns the section list if and
\* only if no cycle of resolvable PART relations is reachable from its start
\* (the graphs here are far shallower than the recursion limit); the list then
\* holds the entities reachable from the start.  With a reachable cycle the
\* traversal ENDS as well: there is no visited-set guard and no cycle check,
\* the recursion runs into the interpreter's recursion limit and the uncaught
\* RecursionError ends the run without a section list.
C13_ReturnsIffAcyclic ==
    TraversalEnded =>
        /\ pc = "parts_done" <=> ~CycleReachable(Self, root)
        /\ pc = "parts_done" =>
              /\ raised = ""
              /\ {parts[k].ID : k \in DOMAIN parts} = ReachFrom(Self, {root}) \ {root}
        /\ pc = "failed" => (raised = "RecursionError" /\ parts = <<>>)

\* T has the part A and A lists itself: the traversal ended, with the error
C13_Witness ==
    /\ pc = "failed"
    /\ raised = "RecursionError"
    /\ root = "T"
    /\ "A" \in Children(Self, "T")
    /\ "A" \in Children(Self, "A")

\* Shared parts without a cycle: B is a part of T and of A, and is listed twice
C13_SharedPartReturned ==
    /\ pc = "parts_done"
    /\ {"A", "B"} \subseteq Children(Self, "T")
    /\ "B" \in Children(Self, "A")
    /\ Len(parts) = 3

\* C13 as stated: the traversal ends if and only if no cycle is reachable; with
\* a reachable cycle it never ends
C13_Original ==
    /\ TraversalEnded => ~CycleReachable(Self, root)
    /\ pc = "parts_done" =>
          {parts[k].ID : k \in DOMAIN parts} = ReachFrom(Self, {root}) \ {root}


-----------------------------------------------------------------------------
(* Claim about the independence of documents, checked under SpecGen *)

\* Pass 1 on one part
CleanedOf(part) == parse_citations(part.text, part.ID)

\* The citation table of a section list tp, built from nothing
TableOf(tp) ==
    LET withText == {k \in DOMAIN tp : HasText(tp[k], "text")}
    IN [key \in UNION {DOMAIN CleanedOf(tp[k]).citation_map : k \in withText} |->
           CleanedOf(tp[CHOOSE k \in withText :
                           /\ key \in DOMAIN CleanedOf(tp[k]).citation_map
                           /\ \A j \in withText :
                                 key \in DOMAIN CleanedOf(tp[j]).citation_map => j <= k
                       ]).citation_map[key]]

\* The sections of tp from position k on, with the keys in used already used
RECURSIVE SectionsAlone(_, _, _, _)
SectionsAlone(tp, k, table, used) ==
    IF k > Len(tp) THEN <<>>
    ELSE LET part == tp[k]
             res  == replace_citation_refs(CleanedOf(part).cleaned_text, part.ID, table, used)
         IN PartHeader(part) \o PartLeadImage(Self, part)
               \o (IF HasText(part, "text") THEN <<html_to_mediawiki(res.text), <<>>>> ELSE <<>>)
               \o PartGallery(Self, part)
               \o SectionsAlone(tp, k + 1, table,
                                IF HasText(part, "text") THEN res.used_refs ELSE used)

\* The document of an entity assembled on its own: from the store alone, with
\* an empty used_refs and a citation table of its own parts
DocumentAlone(entity) ==
    LET tp == get_text_parts(Self, entity.ID).parts
    IN Join(ArticleHead(Self, entity) \o SectionsAlone(tp, 1, TableOf(tp), {})
               \o ArticleTail(entity),
            <<"\n">>)

-----------------------------------------------------------------------------
(* C15: reads and generation leave the store as load built it *)

\* The source IDs of the outgoing relations of the file
IndexKeysOfFile ==
    {relations_file[i].ID : i \in {j \in DOMAIN relations_file :
                                      relations_file[j].relDir = "->"}}

\* The outgoing relations of one source, of every type or of one, in file order
FileRelsOf(id) ==
    SelectSeq(relations_file, LAMBDA r : r.relDir = "->" /\ r.ID = id)

FileRelsOfType(id, y) ==
    SelectSeq(relations_file, LAMBDA r : r.relDir = "->" /\ r.ID = id /\ r.sType = y)

\* The IDs a caller asks about: those of the file's entities, and the unknown X
AskedIDs == {entities_file[i].ID : i \in DOMAIN entities_file} \cup {"X"}

\* C15: after load, whatever reads (relation lookups, PART traversals with
\* their sort by relOrd, lead-resource lookups) and whatever generation of
\* articles have run, and also when one of them has failed, the entity map,
\* the resource map and the relation list are what the files held, the index
\* has exactly the sources of the file's outgoing relations as its keys, each
\* with its relations in file order, and get_relations_by_type returns the
\* relations of the asked type in file order, for X the empty list.
C15_StoreAsLoaded ==
    pc # "start" =>
        /\ entities = entities_file
        /\ resources = resources_file
        /\ relations = relations_file
        /\ DOMAIN relations_by_source = IndexKeysOfFile
        /\ \A id \in IndexKeysOfFile : relations_by_source[id] = FileRelsOf(id)
        /\ \A id \in AskedIDs, y \in {"PART", "LEAD_RESOURCE", "IMAGE"} :
              get_relations_by_type(Self, id, y) = FileRelsOfType(id, y)

\* The PART traversal of T has returned B before A, sorted by relOrd, while
\* the file lists A before B; A and B have no relations of their own, so the
\* traversal looked up two IDs that are not keys of the index.
C15_Witness ==
    /\ pc = "parts_done"
    /\ root = "T"
    /\ Len(parts) = 2 /\ parts[1].ID = "B" /\ parts[2].ID = "A"
    /\ Len(FileRelsOfType("T", "PART")) = 2
    /\ FileRelsOfType("T", "PART")[1].relTar = "A"
    /\ FileRelsOfType("T", "PART")[2].relTar = "B"
    /\ {"A", "B"} \cap IndexKeysOfFile = {}

\* A caller has asked for the relations of X, which is no entity and no key
C15_UnknownAsked ==
    /\ pc = "rels_done"
    /\ root = "X"
    /\ "X" \notin IndexKeysOfFile

\* All articles have been generated after a traversal whose sort changed the order
C15_GeneratedAfterSort ==
    /\ pc = "done"
    /\ Len(parts) = 2 /\ parts[1].ID = "B" /\ parts[2].ID = "A"
    /\ articles # EmptyDict

====
